---- MODULE Spec2Model ----
(***************************************************************************)
(* A model of env_runners/replenishment_runner.py: the ReplenishmentRunner *)
(* supervisor, its env_worker processes and the pipes between them.        *)
(*                                                                         *)
(* Python indexes the workers 0..N-1; the model indexes them 1..N so that  *)
(* the lists the code appends to are TLA+ sequences.  Rewards and returns  *)
(* are integers.  The supervisor is one process whose position is pc/idx;  *)
(* it moves at every send and every recv, and the workers move on their    *)
(* own, so every interleaving of the processes is a behaviour.             *)
(***************************************************************************)
EXTENDS Integers, Sequences, FiniteSets, TLC

\* ------------------------------------------------------------ bounds
NumEnvs == 2
MaxCalls == 3
MaxEpisode == 3

Envs == 1..NumEnvs
\* what env.step may return as reward
Rewards == {0, 1}

VARIABLES
    asynchronous_env,     \* args.asynchronous_env: which step method is bound
    evaluate,             \* self.evaluate
    terminated,           \* self.terminated
    envs_step,            \* self.envs_step
    env_total_step,       \* self.env_total_step
    episode_returns,      \* self.episode_returns
    episode_lengths,      \* self.episode_lengths
    live_env,             \* self.live_env: <<>> while the attribute is unset
    parent_conns,         \* per worker: commands sent on parent_conn, not yet read
    worker_conns,         \* per worker: responses sent on remote, not yet read
    ps,                   \* per worker process: "running", "closed" or "error"
    pc,                   \* the supervisor's position
    idx,                  \* the loop variable of the supervisor's current loop
    step_data,            \* the step_data of the call in progress
    terminated_env_info,  \* the terminated_env_info of the call in progress
    calls,                \* number of step() calls started
    sent,                 \* history: per worker, the commands sent by this call
    recvd,                \* history: the workers this call has received from
    term0,                \* history: self.terminated when this call started
    fresh,                \* history: no step() since construction / reset_all_env
    since,                \* history: per worker, the "step" commands it has run
                          \*   since its last "reset" or its last emitted dict
    steps_sent,           \* history: number of "step" commands ever sent
    budget,               \* the number of step() calls the caller makes at most
    env_calls             \* history: per worker, the last setter called on its
                          \*   environment, <<>> if none

vars == <<asynchronous_env, evaluate, terminated, envs_step, env_total_step,
          episode_returns, episode_lengths, live_env, parent_conns,
          worker_conns, ps, pc, idx, step_data, terminated_env_info, calls,
          sent, recvd, term0, fresh, since, steps_sent, budget,
          env_calls>>

config == <<asynchronous_env, evaluate, budget>>
counters == <<envs_step, env_total_step, episode_returns, episode_lengths>>
pipes == <<parent_conns, worker_conns>>
locals == <<step_data, terminated_env_info>>
history == <<sent, recvd, term0>>

\* ------------------------------------------------------------ dictionaries
\* dict.get(k, default)
Get(d, k, default) == IF k \in DOMAIN d THEN d[k] ELSE default

\* the dict left by d.pop(k)
Pop(d, k) == [x \in DOMAIN d \ {k} |-> d[x]]

\* ------------------------------------------------------------ the simulation
\* actions[i] of the list the caller passes to step(): opaque to the runner,
\* the model keeps which entry it is.
Action(i) == [actions |-> i]

\* What env.get_state / get_obs / get_avail_actions of worker i return: the
\* tensor is opaque, the model keeps whose it is and which command produced it.
Tensor(i, cmd) == [env |-> i, of |-> cmd]

\* np.zeros(...) / np.ones(...): the fake data of a skipped worker
Zeros == [env |-> 0, of |-> "zeros"]
Ones == [env |-> 0, of |-> "ones"]

\* The info dicts env.step may return with reward r.  individual_rewards is
\* always there (the runner indexes it); True is the integer 1, as in Python.
\* The second dict is an episode-limit cutoff; the third carries a key the
\* tracker also writes and a statistic of the environment's own.
EnvInfos(r) ==
    IF r = 0
    THEN { ("individual_rewards" :> r) }
    ELSE { ("individual_rewards" :> r),
           ("individual_rewards" :> r) @@ ("episode_limit" :> 1),
           ("individual_rewards" :> r) @@ ("episode_length" :> 2) @@ ("profit" :> 3) }

\* the dict env_worker sends for "step"
StepMessages(i) ==
    UNION { { [state |-> Tensor(i, "step"), avail_actions |-> Tensor(i, "step"),
               obs |-> Tensor(i, "step"), reward |-> r, terminated |-> t,
               info |-> inf] : t \in BOOLEAN, inf \in EnvInfos(r) } :
            r \in Rewards }

\* the dict env_worker sends for "reset"
ResetMessage(i) ==
    [state |-> Tensor(i, "reset"), avail_actions |-> Tensor(i, "reset"),
     obs |-> Tensor(i, "reset")]

\* ------------------------------------------------------------ the pipes
None == "None"

\* conn.send(msg) on the pipe of worker i
Send(conns, i, msg) == [conns EXCEPT ![i] = Append(@, msg)]

\* the pipes after conn.recv() on the pipe of worker i (the message is the head)
Recv(conns, i) == [conns EXCEPT ![i] = Tail(@)]

\* ------------------------------------------------------------ episode tracker
\* the counters read before the terminal step was added to them
TrackerInfoStale(len, ret) ==
    ("episode_length" :> len - 1) @@ ("episode_return" :> ret)

\* get_terminated_env_info: the dict built from the counters
TrackerInfo(len, ret) == ("episode_length" :> len) @@ ("episode_return" :> ret)

\* get_terminated_env_info: the update with the key-wise sums over both dicts
MergeInfo(t, env_info) ==
    [k \in DOMAIN t \cup DOMAIN env_info |-> Get(t, k, 0) + Get(env_info, k, 0)]

\* an evaluate branch that renames the tracker's two keys only
TestKeysTrackerOnly(d) ==
    [nk \in {IF k \in {"episode_length", "episode_return"} THEN "test_" \o k ELSE k :
                k \in DOMAIN d} |->
        d[CHOOSE k \in DOMAIN d : nk \in {k, "test_" \o k}]]

\* get_terminated_env_info: the evaluate branch, every key renamed "test_" + k
TestKeys(d) ==
    [nk \in {"test_" \o k : k \in DOMAIN d} |->
        d[CHOOSE k \in DOMAIN d : "test_" \o k = nk]]

\* the dict get_terminated_env_info returns for counters len, ret
TerminatedEnvInfo(len, ret, env_info) ==
    LET merged == MergeInfo(TrackerInfo(len, ret), env_info)
    IN  IF evaluate THEN TestKeys(merged) ELSE merged

\* ------------------------------------------------------------ step_data
EmptyStepData ==
    [state |-> <<>>, avail_actions |-> <<>>, obs |-> <<>>, reward |-> <<>>,
     individual_rewards |-> <<>>, terminated |-> <<>>]

\* one append to each of the six lists of step_data
AppendSlot(sd, st, av, ob, rw, ir, tm) ==
    [state |-> Append(sd.state, st),
     avail_actions |-> Append(sd.avail_actions, av),
     obs |-> Append(sd.obs, ob),
     reward |-> Append(sd.reward, rw),
     individual_rewards |-> Append(sd.individual_rewards, ir),
     terminated |-> Append(sd.terminated, tm)]

\* the slot of a worker that answered "reset": reward 0, not terminated
AppendReset(sd, data) ==
    AppendSlot(sd, data.state, data.avail_actions, data.obs, 0, 0, FALSE)

\* a skipped worker that gets no slot at all
AppendFakeNothing(sd) == sd

\* the "add fake data" slot of sync_step
AppendFake(sd) == AppendSlot(sd, Zeros, Ones, Zeros, 0, 0, FALSE)

\* env_terminated without the episode_limit test
EnvTerminatedAnyCause(data) == data.terminated

\* env_terminated that no response sets
EnvTerminatedNever(data) == FALSE

\* env_terminated with the episode_limit test the wrong way round
EnvTerminatedOnLimit(data) ==
    data.terminated /\ Get(data.info, "episode_limit", 0) = 1

\* env_terminated of a step response: terminated and not info["episode_limit"]
EnvTerminated(data) ==
    data.terminated /\ Get(data.info, "episode_limit", 0) = 0

\* the slot of a worker that answered "step"
AppendStep(sd, data) ==
    AppendSlot(sd, data.state, data.avail_actions, data.obs, data.reward,
               data.info["individual_rewards"], EnvTerminated(data))

\* ------------------------------------------------------------ construction
\* ReplenishmentRunner.__init__ / _init_env, for either value of the two flags,
\* before a caller that makes at most b calls of step()
Constructed(b) ==
    /\ asynchronous_env \in BOOLEAN
    /\ evaluate \in BOOLEAN
    /\ env_total_step = 0
    /\ terminated = [i \in Envs |-> TRUE]
    /\ envs_step = [i \in Envs |-> 0]
    /\ episode_returns = [i \in Envs |-> 0]
    /\ episode_lengths = [i \in Envs |-> 0]
    /\ live_env = <<>>
    /\ parent_conns = [i \in Envs |-> <<>>]
    /\ worker_conns = [i \in Envs |-> <<>>]
    /\ ps = [i \in Envs |-> "running"]
    /\ pc = "idle"
    /\ idx = 1
    /\ step_data = EmptyStepData
    /\ terminated_env_info = <<>>
    /\ calls = 0
    /\ sent = [i \in Envs |-> <<>>]
    /\ recvd = <<>>
    /\ term0 = [i \in Envs |-> TRUE]
    /\ fresh = TRUE
    /\ since = [i \in Envs |-> 0]
    /\ steps_sent = 0
    /\ budget = b
    /\ env_calls = [i \in Envs |-> <<>>]

\* the runner before a caller of at most MaxCalls calls
Init == Constructed(MaxCalls)

\* the runner before a caller of one call more
InitLong == Constructed(MaxCalls + 1)

\* ------------------------------------------------------------ env_worker
\* cmd == "step"
env_worker_step(i) ==
    /\ ps[i] = "running"
    /\ parent_conns[i] # <<>>
    /\ Head(parent_conns[i])[1] = "step"
    /\ parent_conns' = Recv(parent_conns, i)
    /\ \E msg \in StepMessages(i) : worker_conns' = Send(worker_conns, i, msg)
    /\ since' = [since EXCEPT ![i] = @ + 1]
    /\ UNCHANGED <<config, env_calls, steps_sent, terminated, counters, live_env, ps, pc, idx, locals,
                   calls, history, fresh>>

\* a "reset" branch that resets the environment and sends nothing back
env_worker_reset_silent(i) ==
    /\ ps[i] = "running"
    /\ parent_conns[i] # <<>>
    /\ Head(parent_conns[i])[1] = "reset"
    /\ parent_conns' = Recv(parent_conns, i)
    /\ since' = [since EXCEPT ![i] = 0]
    /\ UNCHANGED <<config, env_calls, steps_sent, terminated, counters, live_env, worker_conns,
                   ps, pc, idx, locals, calls, history, fresh>>

\* cmd == "reset"
env_worker_reset(i) ==
    /\ ps[i] = "running"
    /\ parent_conns[i] # <<>>
    /\ Head(parent_conns[i])[1] = "reset"
    /\ parent_conns' = Recv(parent_conns, i)
    /\ worker_conns' = Send(worker_conns, i, ResetMessage(i))
    /\ since' = [since EXCEPT ![i] = 0]
    /\ UNCHANGED <<config, env_calls, steps_sent, terminated, counters, live_env, ps, pc, idx, locals,
                   calls, history, fresh>>

\* a "close" branch that acknowledges before it breaks
env_worker_close_ack(i) ==
    /\ ps[i] = "running"
    /\ parent_conns[i] # <<>>
    /\ Head(parent_conns[i])[1] = "close"
    /\ parent_conns' = Recv(parent_conns, i)
    /\ worker_conns' = Send(worker_conns, i, "closed")
    /\ ps' = [ps EXCEPT ![i] = "closed"]
    /\ UNCHANGED <<config, env_calls, since, steps_sent, terminated, counters, live_env, pc, idx,
                   locals, calls, history, fresh>>

\* cmd == "close": env.close(), remote.close(), break
env_worker_close(i) ==
    /\ ps[i] = "running"
    /\ parent_conns[i] # <<>>
    /\ Head(parent_conns[i])[1] = "close"
    /\ parent_conns' = Recv(parent_conns, i)
    /\ ps' = [ps EXCEPT ![i] = "closed"]
    /\ UNCHANGED <<config, env_calls, since, steps_sent, terminated, counters, live_env, worker_conns, pc, idx,
                   locals, calls, history, fresh>>

\* ------------------------------------------------------------ supervisor
\* np.any in place of np.all
AnyTerminated == \E i \in Envs : terminated[i]

\* a count of the flags that are set
alive_env_set == Cardinality({i \in Envs : terminated[i] = TRUE})

\* np.all(self.terminated)
AllTerminated == \A i \in Envs : terminated[i]

\* alive_env: int(np.sum(self.terminated == False))
alive_env == Cardinality({i \in Envs : terminated[i] = FALSE})

\* a send loop that steps every worker, terminated or not
SyncLiveAlways(i) == TRUE

\* a send loop that never resets
AsyncCommandStepOnly(i) == <<"step", Action(i)>>

\* sync_step's send and receive loops: "if not self.terminated[idx]"
SyncLive(i) == ~terminated[i]

\* async_step's send loop: the command worker i gets
AsyncCommand(i) ==
    IF ~terminated[i] THEN <<"step", Action(i)>> ELSE <<"reset", None>>

\* the end of one iteration of a "for idx, parent_conn in enumerate(...)" loop:
\* one loop over the workers that sends to a worker and at once receives from
\* it, in place of a send loop followed by a receive loop
IterateInterleaved(next) ==
    IF pc \in {"sync_reset_send", "sync_step_send", "async_send"}
    THEN pc' = next /\ idx' = idx
    ELSE IF pc = "close_env" \/ idx = NumEnvs
         THEN IF idx = NumEnvs THEN pc' = next /\ idx' = 1
                               ELSE pc' = pc /\ idx' = idx + 1
         ELSE /\ pc' = (IF pc = "sync_reset_recv" THEN "sync_reset_send"
                        ELSE IF pc = "sync_step_recv" THEN "sync_step_send"
                        ELSE "async_send")
              /\ idx' = idx + 1

\* the next iteration, or after the last one the position next
Iterate(next) ==
    IF idx = NumEnvs
    THEN pc' = next /\ idx' = 1
    ELSE pc' = pc /\ idx' = idx + 1

\* the history of a call that starts
StartCall ==
    /\ sent' = [i \in Envs |-> <<>>]
    /\ recvd' = <<>>
    /\ term0' = terminated

\* the handling of a "step" response of worker i, the same lines in sync_step
\* and async_step; info is the dict handed to get_terminated_env_info, which
\* zeroes the two counters after reading them
StepResponse(i, data, info) ==
    LET len == episode_lengths[i] + 1
        ret == episode_returns[i] + data.reward
    IN  /\ step_data' = AppendStep(step_data, data)
        /\ IF data.terminated
           THEN /\ terminated_env_info' =
                       Append(terminated_env_info, TerminatedEnvInfo(len, ret, info))
                /\ episode_lengths' = [episode_lengths EXCEPT ![i] = 0]
                /\ episode_returns' = [episode_returns EXCEPT ![i] = 0]
                /\ since' = [since EXCEPT ![i] = 0]
           ELSE /\ terminated_env_info' = terminated_env_info
                /\ since' = since
                /\ episode_lengths' = [episode_lengths EXCEPT ![i] = len]
                /\ episode_returns' = [episode_returns EXCEPT ![i] = ret]
        /\ terminated' = [terminated EXCEPT ![i] = EnvTerminated(data)]

\* reset_all_env with np.zeros in place of np.ones for self.terminated
reset_all_env_zeros ==
    /\ pc = "idle"
    /\ envs_step' = [i \in Envs |-> 0]
    /\ terminated' = [i \in Envs |-> FALSE]
    /\ live_env' = <<NumEnvs>>
    /\ fresh' = TRUE
    /\ term0' = [i \in Envs |-> FALSE]
    /\ UNCHANGED <<config, env_calls, since, steps_sent, env_total_step, episode_returns, episode_lengths,
                   pipes, ps, pc, idx, locals, calls, sent, recvd>>

\* reset_all_env that sets self.live_env to 0
reset_all_env_no_live ==
    /\ pc = "idle"
    /\ envs_step' = [i \in Envs |-> 0]
    /\ terminated' = [i \in Envs |-> TRUE]
    /\ live_env' = <<0>>
    /\ fresh' = TRUE
    /\ term0' = [i \in Envs |-> TRUE]
    /\ UNCHANGED <<config, env_calls, since, steps_sent, env_total_step, episode_returns, episode_lengths,
                   pipes, ps, pc, idx, locals, calls, sent, recvd>>

\* reset_all_env
reset_all_env ==
    /\ pc = "idle"
    /\ envs_step' = [i \in Envs |-> 0]
    /\ terminated' = [i \in Envs |-> TRUE]
    /\ live_env' = <<NumEnvs>>
    /\ fresh' = TRUE
    /\ term0' = [i \in Envs |-> TRUE]
    /\ UNCHANGED <<config, env_calls, since, steps_sent, env_total_step, episode_returns, episode_lengths,
                   pipes, ps, pc, idx, locals, calls, sent, recvd>>

\* sync_step: the locals and the test of np.all(self.terminated)
sync_step_call ==
    /\ pc = "idle"
    /\ ~asynchronous_env
    /\ calls < budget
    /\ calls' = calls + 1
    /\ step_data' = EmptyStepData
    /\ terminated_env_info' = <<>>
    /\ idx' = 1
    /\ IF AllTerminated
       THEN envs_step' = [i \in Envs |-> 0] /\ pc' = "sync_reset_send"
       ELSE envs_step' = envs_step /\ pc' = "sync_step_send"
    /\ StartCall
    /\ UNCHANGED <<config, env_calls, since, steps_sent, terminated, env_total_step, episode_returns,
                   episode_lengths, live_env, pipes, ps, fresh>>

\* sync_step, all terminated: one iteration of the loop that sends "reset"
sync_reset_send ==
    /\ pc = "sync_reset_send"
    /\ parent_conns' = Send(parent_conns, idx, <<"reset", None>>)
    /\ sent' = [sent EXCEPT ![idx] = Append(@, "reset")]
    /\ Iterate("sync_reset_recv")
    /\ UNCHANGED <<config, env_calls, since, steps_sent, terminated, counters, live_env, worker_conns, ps,
                   locals, calls, recvd, term0, fresh>>

\* sync_step, all terminated: one iteration of the loop that receives, and
\* after the last one self.terminated[:] = False
sync_reset_recv ==
    /\ pc = "sync_reset_recv"
    /\ worker_conns[idx] # <<>>
    /\ worker_conns' = Recv(worker_conns, idx)
    /\ recvd' = Append(recvd, idx)
    /\ step_data' = AppendReset(step_data, Head(worker_conns[idx]))
    /\ terminated' = IF idx = NumEnvs THEN [i \in Envs |-> FALSE] ELSE terminated
    /\ Iterate("sync_return")
    /\ UNCHANGED <<config, env_calls, since, steps_sent, counters, live_env, parent_conns, ps,
                   terminated_env_info, calls, sent, term0, fresh>>

\* sync_step, some worker live: one iteration of the loop that sends "step"
\* to the workers that are not terminated
sync_step_send ==
    /\ pc = "sync_step_send"
    /\ IF SyncLive(idx)
       THEN /\ parent_conns' = Send(parent_conns, idx, <<"step", Action(idx)>>)
            /\ sent' = [sent EXCEPT ![idx] = Append(@, "step")]
            /\ envs_step' = [envs_step EXCEPT ![idx] = @ + 1]
            /\ env_total_step' = env_total_step + 1
            /\ steps_sent' = steps_sent + 1
       ELSE UNCHANGED <<parent_conns, sent, envs_step, env_total_step, steps_sent>>
    /\ Iterate("sync_step_recv")
    /\ UNCHANGED <<config, env_calls, since, terminated, episode_returns, episode_lengths,
                   live_env, worker_conns, ps, locals, calls, recvd, term0, fresh>>

\* sync_step, some worker live: one iteration of the loop that receives from
\* the workers that are not terminated and adds fake data for the others
sync_step_recv ==
    /\ pc = "sync_step_recv"
    /\ IF SyncLive(idx)
       THEN /\ worker_conns[idx] # <<>>
            /\ worker_conns' = Recv(worker_conns, idx)
            /\ recvd' = Append(recvd, idx)
            /\ LET data == Head(worker_conns[idx])
               IN  StepResponse(idx, data, Pop(data.info, "individual_rewards"))
            /\ UNCHANGED envs_step
       ELSE /\ step_data' = AppendFake(step_data)
            /\ envs_step' = [envs_step EXCEPT ![idx] = 0]
            /\ UNCHANGED <<worker_conns, recvd, terminated_env_info,
                           episode_lengths, episode_returns, terminated, since>>
    /\ Iterate("sync_return")
    /\ UNCHANGED <<config, env_calls, steps_sent, env_total_step, live_env, parent_conns, ps, calls,
                   sent, term0, fresh>>

\* the history after a call has returned
EndCall ==
    /\ sent' = [i \in Envs |-> <<>>]
    /\ recvd' = <<>>
    /\ term0' = terminated
    /\ fresh' = FALSE

\* sync_step: np.array over the lists and the return; the caller takes
\* step_data and terminated_env_info
sync_step_return ==
    /\ pc = "sync_return"
    /\ pc' = "idle"
    /\ step_data' = EmptyStepData
    /\ terminated_env_info' = <<>>
    /\ EndCall
    /\ UNCHANGED <<config, env_calls, since, steps_sent, terminated, counters, live_env, pipes, ps, idx, calls>>

\* async_step: the locals
async_step_call ==
    /\ pc = "idle"
    /\ asynchronous_env
    /\ calls < budget
    /\ calls' = calls + 1
    /\ step_data' = EmptyStepData
    /\ terminated_env_info' = <<>>
    /\ idx' = 1
    /\ pc' = "async_send"
    /\ StartCall
    /\ UNCHANGED <<config, env_calls, since, steps_sent, terminated, counters, live_env, pipes, ps, fresh>>

\* async_step: one iteration of the loop that sends "step" or "reset"
async_step_send ==
    /\ pc = "async_send"
    /\ parent_conns' = Send(parent_conns, idx, AsyncCommand(idx))
    /\ sent' = [sent EXCEPT ![idx] = Append(@, AsyncCommand(idx)[1])]
    /\ envs_step' = [envs_step EXCEPT ![idx] = IF ~terminated[idx] THEN @ + 1 ELSE 0]
    /\ steps_sent' = IF ~terminated[idx] THEN steps_sent + 1 ELSE steps_sent
    /\ Iterate("async_recv")
    /\ UNCHANGED <<config, env_calls, since, terminated, env_total_step, episode_returns,
                   episode_lengths, live_env, worker_conns, ps, locals, calls,
                   recvd, term0, fresh>>

\* async_step: one iteration of the loop that receives from every worker
async_step_recv ==
    /\ pc = "async_recv"
    /\ worker_conns[idx] # <<>>
    /\ worker_conns' = Recv(worker_conns, idx)
    /\ recvd' = Append(recvd, idx)
    /\ env_total_step' = env_total_step + 1
    /\ LET data == Head(worker_conns[idx])
       IN  IF ~terminated[idx]
           THEN StepResponse(idx, data, data.info)
           ELSE /\ step_data' = AppendReset(step_data, data)
                /\ terminated' = [terminated EXCEPT ![idx] = FALSE]
                /\ UNCHANGED <<terminated_env_info, episode_lengths,
                               episode_returns, since>>
    /\ Iterate("async_return")
    /\ UNCHANGED <<config, env_calls, steps_sent, envs_step, live_env, parent_conns, ps, calls, sent,
                   term0, fresh>>

\* async_step: np.array over the lists and the return
async_step_return ==
    /\ pc = "async_return"
    /\ pc' = "idle"
    /\ step_data' = EmptyStepData
    /\ terminated_env_info' = <<>>
    /\ EndCall
    /\ UNCHANGED <<config, env_calls, since, steps_sent, terminated, counters, live_env, pipes, ps, idx, calls>>

\* close_env is called: the supervisor makes no call after it
close_env_call ==
    /\ pc = "idle"
    /\ pc' = "close_env"
    /\ idx' = 1
    /\ StartCall
    /\ UNCHANGED <<config, env_calls, since, steps_sent, terminated, counters, live_env, pipes, ps, locals,
                   calls, fresh>>

\* close_env: one iteration of the loop that sends "close"
close_env_send ==
    /\ pc = "close_env"
    /\ parent_conns' = Send(parent_conns, idx, <<"close", None>>)
    /\ sent' = [sent EXCEPT ![idx] = Append(@, "close")]
    /\ Iterate("closed")
    /\ UNCHANGED <<config, env_calls, since, steps_sent, terminated, counters, live_env, worker_conns, ps,
                   locals, calls, recvd, term0, fresh>>

Next ==
    \/ reset_all_env
    \/ sync_step_call
    \/ sync_reset_send
    \/ sync_reset_recv
    \/ sync_step_send
    \/ sync_step_recv
    \/ sync_step_return
    \/ async_step_call
    \/ async_step_send
    \/ async_step_recv
    \/ async_step_return
    \/ close_env_call
    \/ close_env_send
    \/ \E i \in Envs : env_worker_step(i)
    \/ \E i \in Envs : env_worker_reset(i)
    \/ \E i \in Envs : env_worker_close(i)

Spec == Init /\ [][Next]_vars

\* the same program under the longer caller
SpecLong == InitLong /\ [][Next]_vars

\* ------------------------------------------------------------ step() for ever
\* The caller calls sync_step without end and never reset_all_env or close_env;
\* every environment ends an episode within MaxEpisode steps. The counters
\* that only count (calls, env_total_step, envs_step, steps_sent) grow without
\* bound in such a run and are read by no test of sync_step: they are left
\* where they are.

\* the answers to "step" that differ in what sync_step tests: terminated and
\* info["episode_limit"], all with reward 1
LiveStepMessages(i) ==
    {msg \in StepMessages(i) :
        /\ msg.reward = 1
        /\ DOMAIN msg.info \subseteq {"individual_rewards", "episode_limit"}}

\* cmd == "step" on an environment that ends its episode by step MaxEpisode
live_env_worker_step(i) ==
    /\ ps[i] = "running"
    /\ parent_conns[i] # <<>>
    /\ Head(parent_conns[i])[1] = "step"
    /\ parent_conns' = Recv(parent_conns, i)
    /\ \E msg \in LiveStepMessages(i) :
          /\ since[i] + 1 >= MaxEpisode => msg.terminated
          /\ worker_conns' = Send(worker_conns, i, msg)
    /\ since' = [since EXCEPT ![i] = @ + 1]
    /\ UNCHANGED <<config, env_calls, steps_sent, terminated, counters, live_env, ps, pc,
                   idx, locals, calls, history, fresh>>

\* sync_step: the locals and the test np.all(self.terminated)
live_sync_step_call ==
    /\ pc = "idle"
    /\ ~asynchronous_env
    /\ step_data' = EmptyStepData
    /\ terminated_env_info' = <<>>
    /\ idx' = 1
    /\ pc' = IF AllTerminated THEN "sync_reset_send" ELSE "sync_step_send"
    /\ StartCall
    /\ UNCHANGED <<config, env_calls, since, steps_sent, terminated, counters, live_env,
                   pipes, ps, calls, fresh>>

\* sync_step, some worker live: one iteration of the loop that sends "step"
\* to the workers that are not terminated
live_sync_step_send ==
    /\ pc = "sync_step_send"
    /\ IF SyncLive(idx)
       THEN /\ parent_conns' = Send(parent_conns, idx, <<"step", Action(idx)>>)
            /\ sent' = [sent EXCEPT ![idx] = Append(@, "step")]
       ELSE UNCHANGED <<parent_conns, sent>>
    /\ Iterate("sync_step_recv")
    /\ UNCHANGED <<config, env_calls, since, steps_sent, terminated, counters, live_env,
                   worker_conns, ps, locals, calls, recvd, term0, fresh>>

\* the steps of the supervisor in a run of step() after step()
Supervisor ==
    \/ live_sync_step_call
    \/ sync_reset_send
    \/ sync_reset_recv
    \/ live_sync_step_send
    \/ sync_step_recv
    \/ sync_step_return

\* the steps of worker i in such a run
Worker(i) == live_env_worker_step(i) \/ env_worker_reset(i)

LiveInit == Init /\ ~asynchronous_env

LiveNext == Supervisor \/ \E i \in Envs : Worker(i)

\* the caller goes on calling and every worker process gets to run
LiveSpec ==
    /\ LiveInit
    /\ [][LiveNext]_vars
    /\ WF_vars(Supervisor)
    /\ \A i \in Envs : WF_vars(Worker(i))

\* ------------------------------------------------------------ env_worker alone
\* the commands with a branch that sends the environment's answer
QueryCommands == {"get_env_info", "get_stats", "get_profit", "get_reward_dict",
                  "get_storage_capacity"}

\* the commands with a branch that calls the environment and sends nothing
SetCommands == {"switch_mode", "visualize_render", "set_storage_capacity"}

\* a command with no branch
Unrecognized == "get_obs"

\* what can arrive on the worker's end of the pipe
Commands ==
    {"step", "reset", "close", Unrecognized} \cup QueryCommands \cup SetCommands

\* the data that comes with cmd to worker i
DataOf(i, cmd) ==
    IF cmd = "step" THEN Action(i)
    ELSE IF cmd \in SetCommands THEN "data"
    ELSE None

\* a query branch that calls the environment and sends nothing back
env_worker_query_silent(i) ==
    /\ ps[i] = "running"
    /\ parent_conns[i] # <<>>
    /\ Head(parent_conns[i])[1] \in QueryCommands
    /\ parent_conns' = Recv(parent_conns, i)
    /\ UNCHANGED <<config, env_calls, since, steps_sent, terminated, counters, live_env,
                   worker_conns, ps, pc, idx, locals, calls, history, fresh>>

\* cmd in get_env_info, get_stats, get_profit, get_reward_dict,
\* get_storage_capacity: remote.send of what the environment answers
env_worker_query(i) ==
    /\ ps[i] = "running"
    /\ parent_conns[i] # <<>>
    /\ Head(parent_conns[i])[1] \in QueryCommands
    /\ parent_conns' = Recv(parent_conns, i)
    /\ worker_conns' = Send(worker_conns, i, Tensor(i, Head(parent_conns[i])[1]))
    /\ UNCHANGED <<config, env_calls, since, steps_sent, terminated, counters, live_env,
                   ps, pc, idx, locals, calls, history, fresh>>

\* cmd in switch_mode, visualize_render, set_storage_capacity: the call of the
\* environment with data, and no remote.send
env_worker_set(i) ==
    /\ ps[i] = "running"
    /\ parent_conns[i] # <<>>
    /\ Head(parent_conns[i])[1] \in SetCommands
    /\ parent_conns' = Recv(parent_conns, i)
    /\ env_calls' = [env_calls EXCEPT ![i] = Head(parent_conns[i])]
    /\ UNCHANGED <<asynchronous_env, evaluate, budget, since, steps_sent, terminated,
                   counters, live_env, worker_conns, ps, pc, idx, locals, calls,
                   history, fresh>>

\* an else branch that passes and goes on with the loop
env_worker_else_pass(i) ==
    /\ ps[i] = "running"
    /\ parent_conns[i] # <<>>
    /\ Head(parent_conns[i])[1] \notin
          {"step", "reset", "close"} \cup QueryCommands \cup SetCommands
    /\ parent_conns' = Recv(parent_conns, i)
    /\ UNCHANGED <<config, env_calls, since, steps_sent, terminated, counters, live_env,
                   worker_conns, ps, pc, idx, locals, calls, history, fresh>>

\* else: raise NotImplementedError, which ends the worker process
env_worker_else(i) ==
    /\ ps[i] = "running"
    /\ parent_conns[i] # <<>>
    /\ Head(parent_conns[i])[1] \notin
          {"step", "reset", "close"} \cup QueryCommands \cup SetCommands
    /\ parent_conns' = Recv(parent_conns, i)
    /\ ps' = [ps EXCEPT ![i] = "error"]
    /\ UNCHANGED <<config, env_calls, since, steps_sent, terminated, counters, live_env,
                   worker_conns, pc, idx, locals, calls, history, fresh>>

\* the holder of the other end of worker i's pipe reads an answer
remote_answer(i) ==
    /\ worker_conns[i] # <<>>
    /\ worker_conns' = Recv(worker_conns, i)
    /\ UNCHANGED <<config, env_calls, since, steps_sent, terminated, counters, live_env,
                   parent_conns, ps, pc, idx, locals, calls, history, fresh>>

\* remote.recv() has a command to return: the holder of the other end of
\* worker i's pipe has sent one, with no command and no answer of an earlier
\* one left in the pipe
remote_command(i) ==
    /\ calls < budget
    /\ parent_conns[i] = <<>>
    /\ worker_conns[i] = <<>>
    /\ \E cmd \in Commands :
          parent_conns' = Send(parent_conns, i, <<cmd, DataOf(i, cmd)>>)
    /\ calls' = calls + 1
    /\ UNCHANGED <<config, env_calls, since, steps_sent, terminated, counters, live_env,
                   worker_conns, ps, pc, idx, locals, history, fresh>>

\* the workers, each with commands arriving on its pipe
WorkerNext ==
    \/ \E i \in Envs : remote_command(i)
    \/ \E i \in Envs : remote_answer(i)
    \/ \E i \in Envs : env_worker_step(i)
    \/ \E i \in Envs : env_worker_reset(i)
    \/ \E i \in Envs : env_worker_close(i)
    \/ \E i \in Envs : env_worker_query(i)
    \/ \E i \in Envs : env_worker_set(i)
    \/ \E i \in Envs : env_worker_else(i)

WorkerSpec == Init /\ [][WorkerNext]_vars

\* ------------------------------------------------------------ properties
Last(q) == q[Len(q)]
Fields == {"state", "avail_actions", "obs", "reward", "individual_rewards",
           "terminated"}
Returning == pc \in {"sync_return", "async_return"}
Receiving == pc \in {"sync_reset_recv", "sync_step_recv", "async_recv"}
InSync == pc \in {"sync_reset_send", "sync_reset_recv", "sync_step_send",
                  "sync_step_recv", "sync_return"}
InAsync == pc \in {"async_send", "async_recv", "async_return"}
AllTerminated0 == \A i \in Envs : term0[i]

\* slot i of the output holds what worker i answered to cmd
SlotOf(i, cmd) ==
    /\ step_data.state[i] = Tensor(i, cmd)
    /\ step_data.avail_actions[i] = Tensor(i, cmd)
    /\ step_data.obs[i] = Tensor(i, cmd)

\* slot i of the output is the fake data, with reward 0 and terminated False
Placeholder(i) ==
    /\ step_data.state[i] = Zeros
    /\ step_data.avail_actions[i] = Ones
    /\ step_data.obs[i] = Zeros
    /\ step_data.reward[i] = 0
    /\ step_data.individual_rewards[i] = 0
    /\ step_data.terminated[i] = FALSE

\* C1: in both modes every list of the returned step_data has exactly N
\* entries, and entry i is worker i's: while the supervisor receives, each list
\* holds the slots of the workers before idx, so the slot appended for idx is
\* slot idx; in the returned output slot i holds worker i's own answer to the
\* command it was sent, or the fake data when it was sent none.
C1_BatchShape ==
    /\ Receiving => \A f \in Fields : Len(step_data[f]) = idx - 1
    /\ Returning =>
         /\ \A f \in Fields : Len(step_data[f]) = NumEnvs
         /\ \A i \in Envs :
              IF sent[i] = <<>> THEN Placeholder(i) ELSE SlotOf(i, sent[i][1])

\* a synchronous call returns with a skipped worker beside a stepped one
C1_Witness ==
    /\ pc = "sync_return"
    /\ \E i, j \in Envs : sent[i] = <<>> /\ sent[j] = <<"step">>

\* C2: in synchronous mode the first step() after construction or after
\* reset_all_env sends "reset" to every worker and "step" to none, returns
\* reward 0 and terminated False in every slot, and leaves every flag cleared.
C2_FreshSyncStep ==
    (fresh /\ InSync) =>
        /\ \A i \in Envs : sent[i] \in {<<>>, <<"reset">>}
        /\ pc = "sync_return" =>
             \A i \in Envs :
                /\ sent[i] = <<"reset">>
                /\ step_data.reward[i] = 0
                /\ step_data.terminated[i] = FALSE
                /\ terminated[i] = FALSE

\* the first call after a reset_all_env that followed earlier calls returns
C2_Witness == fresh /\ pc = "sync_return" /\ calls >= 2 /\ live_env # <<>>

\* C3, as a state predicate: a synchronous call sends "reset" to all workers
\* when all were terminated at its start, and otherwise "step" to exactly the
\* live ones and nothing to the others, whose slot is the placeholder and
\* whose flag stays set.
C3_SyncCommands ==
    InSync =>
        /\ \A i \in Envs :
              sent[i] \in (IF AllTerminated0 THEN {<<>>, <<"reset">>}
                           ELSE IF term0[i] THEN {<<>>}
                           ELSE {<<>>, <<"step">>})
        /\ pc = "sync_return" =>
             \A i \in Envs :
                IF AllTerminated0 THEN sent[i] = <<"reset">>
                ELSE IF term0[i]
                     THEN sent[i] = <<>> /\ Placeholder(i) /\ terminated[i]
                     ELSE sent[i] = <<"step">>

\* C3: in synchronous mode a worker whose flag is set keeps it, through every
\* step of the supervisor, until every flag is set; a call sends it nothing
\* while a batch-mate was live at the call's start and fills its slot with the
\* placeholder; a call that finds every flag set sends "reset" to all N, so no
\* call resets a strict subset or mixes "step" and "reset".
C3_SyncBarrier ==
    /\ []C3_SyncCommands
    /\ [][~asynchronous_env =>
            \A i \in Envs : (terminated[i] /\ ~AllTerminated) => terminated'[i]]_vars

\* a waiting call returns: one worker had the placeholder, the last live one
\* has just terminated, so that the next call is a full reset
C3_Witness ==
    /\ pc = "sync_return"
    /\ ~AllTerminated0
    /\ \E i \in Envs : term0[i] /\ sent[i] = <<>>
    /\ AllTerminated

\* C4: in asynchronous mode every worker gets exactly one command per call,
\* "reset" if its flag was set when the call started and "step" otherwise; the
\* call clears the flag of a worker it reset and returns reward 0 and
\* terminated False in its slot with the observation of the reset, beside the
\* stepped results of the others.
C4_AsyncCommands ==
    InAsync =>
        /\ \A i \in Envs :
              sent[i] \in {<<>>, <<IF term0[i] THEN "reset" ELSE "step">>}
        /\ pc \in {"async_recv", "async_return"} =>
              \A i \in Envs : Len(sent[i]) = 1
        /\ pc = "async_return" =>
             \A i \in Envs :
                IF term0[i]
                THEN /\ SlotOf(i, "reset")
                     /\ step_data.reward[i] = 0
                     /\ step_data.terminated[i] = FALSE
                     /\ terminated[i] = FALSE
                ELSE SlotOf(i, "step")

\* the call after the one in which one of two workers terminated returns
C4_Witness ==
    /\ pc = "async_return"
    /\ \E i, j \in Envs : term0[i] /\ ~term0[j]
    /\ calls >= 3

\* the command a step appends to the pipe of worker i, <<>> if it appends none
Sends(i) ==
    IF parent_conns'[i] # parent_conns[i] /\ Len(parent_conns'[i]) > Len(parent_conns[i])
    THEN <<Last(parent_conns'[i])[1]>>
    ELSE <<>>

\* C5: in both modes no "step" is ever sent to a worker whose flag is set:
\* what sync_step or async_step sends to it is "reset".
C5_NoStepWhenTerminated ==
    [][\A i \in Envs :
         (terminated[i] /\ Sends(i) # <<>> /\ Sends(i) # <<"close">>)
             => Sends(i) = <<"reset">>]_vars

\* a flagged worker has been sent "reset" while a batch-mate was sent "step"
C5_Witness ==
    \E i, j \in Envs :
        /\ term0[i] /\ sent[i] = <<"reset">>
        /\ ~term0[j] /\ sent[j] = <<"step">>

\* the step is the supervisor's recv on the pipe of worker i
Received(i) == Len(recvd') = Len(recvd) + 1 /\ Last(recvd') = i

\* the response such a step reads
Response(i) == Head(worker_conns[i])

\* a "step" response (a "reset" response has no reward)
IsStepMessage(data) == "reward" \in DOMAIN data

\* the step appends a dict to terminated_env_info
Emits == Len(terminated_env_info') = Len(terminated_env_info) + 1

\* C6: a step response with terminated and info["episode_limit"] true leaves
\* the worker's flag and its terminated entry False, one with terminated and
\* no episode limit sets both; either way exactly one dict is appended to
\* terminated_env_info for it, and none is appended for a response without
\* terminated, for a reset response, or by any other step.
C6_EpisodeLimit ==
    [][/\ \A i \in Envs :
            Received(i) =>
               IF IsStepMessage(Response(i)) /\ Response(i).terminated
               THEN /\ Emits
                    /\ LET limit == Get(Response(i).info, "episode_limit", 0) = 1
                       IN  /\ terminated'[i] = ~limit
                           /\ Last(step_data'.terminated) = ~limit
               ELSE terminated_env_info' = terminated_env_info
       /\ (\A i \in Envs : ~Received(i)) =>
             Len(terminated_env_info') <= Len(terminated_env_info)]_vars

\* the key a dict of terminated_env_info has for k
RecordKey(k) == IF evaluate THEN "test_" \o k ELSE k

\* a call has emitted a dict for an episode-limit response and left the
\* worker live
C6_Witness ==
    /\ Returning
    /\ Len(terminated_env_info) = 1
    /\ RecordKey("episode_limit") \in DOMAIN terminated_env_info[1]
    /\ \A i \in Envs : ~terminated[i]

\* what the dict emitted for worker i says under the tracker's keys in keys:
\* the counters with the terminal step counted in
CarriesCounters(i, keys) ==
    LET rec == Last(terminated_env_info')
    IN  /\ "episode_length" \in keys =>
              rec[RecordKey("episode_length")] = episode_lengths[i] + 1
        /\ "episode_return" \in keys =>
              rec[RecordKey("episode_return")] =
                  episode_returns[i] + Response(i).reward

\* the counters of worker i across a step: zero after an emission for i, one
\* step response added otherwise, and untouched by every other step
CountersStep(i) ==
    IF Received(i) /\ IsStepMessage(Response(i))
    THEN IF Emits
         THEN episode_lengths'[i] = 0 /\ episode_returns'[i] = 0
         ELSE /\ episode_lengths'[i] = episode_lengths[i] + 1
              /\ episode_returns'[i] = episode_returns[i] + Response(i).reward
    ELSE /\ episode_lengths'[i] = episode_lengths[i]
         /\ episode_returns'[i] = episode_returns[i]

\* C7 as stated: the counters of worker i are zeroed exactly when a dict is
\* emitted for i, each other step response adds 1 and its reward, nothing else
\* touches them, and the emitted dict carries the counters including the
\* terminal step.
C7_AsStated ==
    [][\A i \in Envs :
          /\ CountersStep(i)
          /\ (Received(i) /\ Emits) =>
                CarriesCounters(i, {"episode_length", "episode_return"})]_vars

\* C7 for the keys the key-wise sum leaves alone: the same, the emitted dict
\* carrying the counters under every tracker key that the environment's info
\* does not supply as well.
C7_Counters ==
    [][\A i \in Envs :
          /\ CountersStep(i)
          /\ (Received(i) /\ Emits) =>
                CarriesCounters(i, {"episode_length", "episode_return"}
                                      \ DOMAIN Response(i).info)]_vars

\* a dict was emitted for a worker on the second step of its episode, with a
\* return that differs from the length
C7_Witness ==
    \E n \in 1..Len(terminated_env_info) :
        /\ terminated_env_info[n][RecordKey("episode_length")] = 2
        /\ terminated_env_info[n][RecordKey("episode_return")] = 1

\* C8: reset_all_env sets every flag and touches no pipe; alive_env is the
\* number of workers whose flag is not set, 0 right after construction or
\* reset_all_env and N when a call that reset the whole batch returns.
C8_ResetAllAlive ==
    /\ [](alive_env = NumEnvs - Cardinality({i \in Envs : terminated[i]}))
    /\ []((fresh /\ pc = "idle") => alive_env = 0)
    /\ []((Returning /\ AllTerminated0) => alive_env = NumEnvs)
    /\ [][(pc = "idle" /\ pc' = "idle") =>
             /\ \A i \in Envs : terminated'[i]
             /\ UNCHANGED pipes]_vars

\* reset_all_env has been called in the middle of an episode
C8_Witness ==
    /\ pc = "idle"
    /\ fresh
    /\ live_env # <<>>
    /\ \E i \in Envs : episode_lengths[i] > 0

\* the step takes a command off the pipe of worker i
Consumes(i) == Len(parent_conns'[i]) < Len(parent_conns[i])

HasTestPrefix(k) == Len(k) >= 5 /\ SubSeq(k, 1, 5) = "test_"

\* C10: with evaluate every key of every emitted dict starts with "test_",
\* the tracker's keys and the environment's alike; without it no key does.
C10_TestPrefix ==
    \A n \in 1..Len(terminated_env_info) :
        LET rec == terminated_env_info[n]
        IN  /\ \A k \in DOMAIN rec : HasTestPrefix(k) <=> evaluate
            /\ {RecordKey("episode_length"), RecordKey("episode_return")}
                   \subseteq DOMAIN rec

\* with evaluate a dict was emitted that holds a key of the environment's
C10_Witness ==
    /\ evaluate
    /\ \E n \in 1..Len(terminated_env_info) :
          "test_profit" \in DOMAIN terminated_env_info[n]

\* the step is the read of a step response with terminated from worker i
ReceivedTerminal(i) ==
    Received(i) /\ IsStepMessage(Response(i)) /\ Response(i).terminated

\* C11 as stated: in asynchronous mode every step response with terminated,
\* one with info["episode_limit"] included, sets the worker's flag.
C11_AsStated ==
    [][asynchronous_env =>
          \A i \in Envs : ReceivedTerminal(i) => terminated'[i]]_vars

\* C11 as amended: asynchronous mode applies the override of synchronous mode:
\* a step response with terminated sets the worker's flag unless its info has
\* episode_limit, and then leaves it clear; the next call sends "reset" to the
\* workers whose flag is set and "step" to the others.
C11_AsyncOverride ==
    /\ [][asynchronous_env =>
            \A i \in Envs :
               ReceivedTerminal(i) =>
                  terminated'[i] = (Get(Response(i).info, "episode_limit", 0) # 1)]_vars
    /\ [](InAsync =>
            \A i \in Envs :
               sent[i] # <<>> => sent[i][1] = IF term0[i] THEN "reset" ELSE "step")

\* an asynchronous call that stepped every worker returns with a dict emitted
\* for an episode-limit response and no flag set
C11_Witness ==
    /\ pc = "async_return"
    /\ \A i \in Envs : ~term0[i] /\ ~terminated[i]
    /\ \E n \in 1..Len(terminated_env_info) :
          RecordKey("episode_limit") \in DOMAIN terminated_env_info[n]

\* the env_info a step hands to get_terminated_env_info for worker i:
\* sync_step has popped individual_rewards off it, async_step has not
HandedInfo(i) ==
    IF asynchronous_env THEN Response(i).info
    ELSE Pop(Response(i).info, "individual_rewards")

\* C12: the emitted dict has the keys of the tracker and of the environment's
\* info; under a key of the info it holds the info's value, also when the
\* tracker has the key too, and under a key of the tracker alone it holds the
\* counter with the terminal step counted in.
C12_EnvWins ==
    [][\A i \in Envs :
          (Received(i) /\ Emits) =>
             LET rec == Last(terminated_env_info')
                 info == HandedInfo(i)
                 tracker == {"episode_length", "episode_return"}
             IN  /\ DOMAIN rec = {RecordKey(k) : k \in tracker \cup DOMAIN info}
                 /\ \A k \in DOMAIN info : rec[RecordKey(k)] = info[k]
                 /\ CarriesCounters(i, tracker \ DOMAIN info)]_vars

\* the workers a sequence of worker indices names
Range(q) == {q[n] : n \in 1..Len(q)}

\* C13: in both modes every command of a call is sent before the call receives
\* a response: a send happens only while the call has received nothing; each
\* receive takes one response off the pipe of a worker the call sent a command
\* to, with a higher index than the receive before it, and changes no command
\* sent; the call returns having received from exactly the workers it sent to.
C13_FanOutFanIn ==
    /\ [][\A i \in Envs : Sends(i) # <<>> => recvd = <<>> /\ recvd' = <<>>]_vars
    /\ [][recvd' # recvd =>
            \/ recvd' = <<>>
            \/ \E i \in Envs :
                  /\ Received(i)
                  /\ sent[i] # <<>> /\ sent' = sent
                  /\ worker_conns' = Recv(worker_conns, i)
                  /\ recvd # <<>> => Last(recvd) < i]_vars
    /\ [](Returning => Range(recvd) = {i \in Envs : sent[i] # <<>>})

\* a synchronous call returns that skipped worker 1 and so received first
\* from a later one
C13_Witness ==
    /\ pc = "sync_return"
    /\ recvd # <<>>
    /\ recvd[1] # 1
    /\ sent[1] = <<>>

\* 1 if the condition holds, 0 otherwise
Count(b) == IF b THEN 1 ELSE 0

\* C14: whatever the interleaving of the workers, a pipe never holds more than
\* one message, command and response taken together; a "step" or "reset" sent
\* in the current call is, at every moment, exactly one of: a command not yet
\* read by the worker, a response not yet read by the supervisor, a response
\* the supervisor has read, so each elicits exactly one response; a "close" is
\* unread or has stopped the worker, without a response; when step() returns,
\* and between calls, every pipe is empty in both directions.
C14_OneInFlight ==
    \A i \in Envs :
        /\ Len(parent_conns[i]) + Len(worker_conns[i]) <= 1
        /\ IF sent[i] = <<>>
           THEN parent_conns[i] = <<>> /\ worker_conns[i] = <<>>
           ELSE IF sent[i] = <<"close">>
           THEN /\ Len(parent_conns[i]) + Count(ps[i] = "closed") = 1
                /\ worker_conns[i] = <<>>
           ELSE /\ Len(sent[i]) = 1
                /\ Len(parent_conns[i]) + Len(worker_conns[i])
                      + Count(i \in Range(recvd)) = 1
        /\ (Returning \/ pc = "idle") =>
              parent_conns[i] = <<>> /\ worker_conns[i] = <<>>

\* a later worker has answered while an earlier one has not yet read its
\* command
C14_Witness ==
    \E i, j \in Envs :
        /\ i < j
        /\ parent_conns[i] # <<>> /\ Head(parent_conns[i])[1] = "step"
        /\ worker_conns[j] # <<>>

\* the step is a call of reset_all_env, the one step between two idle states
ResetAllStep == pc = "idle" /\ pc' = "idle"

\* C16 as stated: reset_all_env sets the live-worker counter to zero.
C16_AsStated == [][ResetAllStep => live_env' = <<0>>]_vars

\* C16 as amended: reset_all_env sets the live-worker counter to the number of
\* workers, whatever the flags and the counter were before, so the counter is
\* unset or N and never 0.
C16_LiveEnv ==
    /\ [][ResetAllStep => live_env' = <<NumEnvs>>]_vars
    /\ [](live_env \in {<<>>, <<NumEnvs>>})

\* reset_all_env has been called after steps were taken, and every flag is
\* set while the counter says N
C16_Witness ==
    /\ pc = "idle"
    /\ fresh
    /\ env_total_step > 0
    /\ live_env = <<NumEnvs>>
    /\ alive_env = 0

\* C18: every dict emitted for worker i is built from an episode_length
\* counter equal to the number of "step" commands worker i has run since the
\* later of its last "reset" and its last emitted dict, reset_all_env in the
\* middle of an episode included.
C18_LengthSinceReset ==
    [][\A i \in Envs :
          (Received(i) /\ Emits) => episode_lengths[i] + 1 = since[i]]_vars

\* C19: in both modes, between calls, env_total_step is the number of "step"
\* commands sent so far.
C19_TotalSteps == pc = "idle" => env_total_step = steps_sent

\* the command worker i takes off its pipe in a step that consumes one
Command(i) == Head(parent_conns[i])[1]

\* the step adds exactly msg to the answers of worker i and leaves the worker
\* in its loop, with the command gone from the pipe
AnswersWith(i, msg) ==
    /\ worker_conns' = Send(worker_conns, i, msg)
    /\ parent_conns' = Recv(parent_conns, i)
    /\ ps'[i] = "running"

\* C15 as stated: on get_env_info, get_stats, switch_mode and the extra-data
\* queries the worker sends the environment's answer as exactly one response
\* and stays in its loop.
C15_AsStated ==
    [][\A i \in Envs :
          (Consumes(i) /\ Command(i) \in QueryCommands \cup {"switch_mode"})
              => AnswersWith(i, Tensor(i, Command(i)))]_vars

\* C15 as amended: on get_env_info, get_stats and the extra-data queries the
\* worker sends the environment's answer as exactly one response and stays in
\* its loop; on switch_mode it calls the environment with the mode, sends no
\* response and stays in its loop.
C15_Queries ==
    [][\A i \in Envs :
          /\ (Consumes(i) /\ Command(i) \in QueryCommands)
                => AnswersWith(i, Tensor(i, Command(i))) /\ env_calls' = env_calls
          /\ (Consumes(i) /\ Command(i) = "switch_mode")
                => /\ env_calls'[i] = Head(parent_conns[i])
                   /\ worker_conns' = worker_conns
                   /\ parent_conns' = Recv(parent_conns, i)
                   /\ ps'[i] = "running"]_vars

\* a worker has answered get_stats while another has switched mode and has
\* nothing in its pipe
C15_Witness ==
    \E i, j \in Envs :
        /\ worker_conns[i] = <<Tensor(i, "get_stats")>>
        /\ env_calls[j] = <<"switch_mode", "data">>
        /\ parent_conns[j] = <<>> /\ worker_conns[j] = <<>>
        /\ ps[j] = "running"

\* C17: a command with no branch ends the worker in the error state without a
\* response; a worker in the error state stays there, takes no command off
\* its pipe and sends nothing.
C17_Unrecognized ==
    [][\A i \in Envs :
          /\ (Consumes(i) /\ Command(i) \notin Commands \ {Unrecognized})
                => ps'[i] = "error" /\ worker_conns' = worker_conns
          /\ ps[i] = "error"
                => /\ ps'[i] = "error"
                   /\ ~Consumes(i)
                   /\ Len(worker_conns'[i]) <= Len(worker_conns[i])]_vars

\* a worker stopped by an unrecognized command leaves the next command unread
C17_Witness ==
    \E i \in Envs : ps[i] = "error" /\ parent_conns[i] # <<>>

\* worker i has answered a "step" with terminated and the answer is unread
Terminates(i) ==
    /\ worker_conns[i] # <<>>
    /\ IsStepMessage(Response(i))
    /\ Response(i).terminated

\* the same, without info["episode_limit"]
TerminatesNaturally(i) ==
    Terminates(i) /\ Get(Response(i).info, "episode_limit", 0) # 1

\* again and again a call resets the whole batch, and a worker whose flag is
\* set is sent "reset" in the end
FullResets ==
    /\ []<>(pc = "sync_reset_send")
    /\ \A i \in Envs : terminated[i] ~> (sent[i] = <<"reset">>)

\* C20 as stated: if every worker, as long as it is live, answers terminated
\* again and again, by an episode limit or not, then the whole batch is reset
\* again and again and no worker with its flag set waits for ever.
C20_AsStated ==
    (\A i \in Envs : []<>(terminated[i] \/ Terminates(i))) => FullResets

\* C20 as amended: the same for termination without info["episode_limit"].
C20_FullReset ==
    (\A i \in Envs : []<>(terminated[i] \/ TerminatesNaturally(i))) => FullResets

\* a call returns in which a worker had the placeholder and the last live
\* worker terminated without an episode limit, some calls after the first
C20_Witness ==
    /\ pc = "sync_return"
    /\ ~fresh
    /\ AllTerminated
    /\ \E i, j \in Envs :
          /\ term0[i] /\ sent[i] = <<>> /\ Placeholder(i)
          /\ ~term0[j] /\ sent[j] = <<"step">> /\ since[j] = 0

====
